---- MODULE Spec2Model ----
(***************************************************************************)
(* Model of the freqtrade strategy plugins GridStrategy, GridStrategyV2,   *)
(* IchiV1_Fixed and IchiV1_Optimizable.                                    *)
(*                                                                         *)
(* A dataframe is a function from column names to columns; a column is a   *)
(* sequence of numbers, one per candle.  Row i of the Python code is index *)
(* i + 1 of the sequence.  Numbers are exact: a float is modelled as a     *)
(* normalised fraction <<n, d>> with d > 0, NaN as <<0, 0>>, +inf and -inf *)
(* as <<1, 0>> and <<-1, 0>>.  Rounding of floating point is not modelled. *)
(***************************************************************************)
EXTENDS Integers, Sequences, FiniteSets, TLC

\* candles is the OHLCV series the host holds for the pair; the dataframe handed
\* to the strategy is built from it, and the strategy never sees candles itself.
VARIABLES strategy, candles, dataframe, params, pc, stoploss_ret

vars == <<strategy, candles, dataframe, params, pc, stoploss_ret>>

(***************************************************************************)
(* Numbers (IEEE-754 values with exact arithmetic)                         *)
(***************************************************************************)
NaN == <<0, 0>>

PosInf == <<1, 0>>

NegInf == <<-1, 0>>

Abs(n) == IF n < 0 THEN -n ELSE n

Sgn(n) == IF n < 0 THEN -1 ELSE IF n > 0 THEN 1 ELSE 0

RECURSIVE Gcd(_, _)
Gcd(a, b) == IF b = 0 THEN a ELSE Gcd(b, a % b)

\* The fraction n/d in lowest terms; d = 0 gives NaN or an infinity.
Rat(n, d) ==
    IF d = 0 THEN <<Sgn(n), 0>>
    ELSE LET g == Gcd(Abs(n), Abs(d))
         IN  <<(Sgn(d) * n) \div g, Abs(d) \div g>>

Num(n) == <<n, 1>>

IsNaN(x) == Len(x) = 2 /\ x = NaN

IsInf(x) == Len(x) = 2 /\ x[2] = 0 /\ x[1] # 0

Neg(x) == <<-x[1], x[2]>>

Add(x, y) ==
    IF IsNaN(x) \/ IsNaN(y) THEN NaN
    ELSE IF IsInf(x) THEN (IF IsInf(y) /\ y # x THEN NaN ELSE x)
    ELSE IF IsInf(y) THEN y
    ELSE LET g == Gcd(x[2], y[2])
         IN  Rat(x[1] * (y[2] \div g) + y[1] * (x[2] \div g), (x[2] \div g) * y[2])

Sub(x, y) == Add(x, Neg(y))

Mul(x, y) ==
    IF IsNaN(x) \/ IsNaN(y) THEN NaN
    ELSE IF IsInf(x) \/ IsInf(y) THEN <<Sgn(x[1]) * Sgn(y[1]), 0>>
    ELSE LET g1 == Gcd(Abs(x[1]), y[2])
             g2 == Gcd(Abs(y[1]), x[2])
         IN  Rat((x[1] \div g1) * (y[1] \div g2), (x[2] \div g2) * (y[2] \div g1))

\* x / y as floats divide: no error on a zero divisor.
Div(x, y) ==
    IF IsNaN(x) \/ IsNaN(y) THEN NaN
    ELSE IF IsInf(y) THEN (IF IsInf(x) THEN NaN ELSE Num(0))
    ELSE IF y[1] = 0 THEN <<Sgn(x[1]), 0>>
    ELSE Mul(x, <<Sgn(y[1]) * y[2], Abs(y[1])>>)

\* The sign of a/b - c/d for b, d > 0, without forming the products.
RECURSIVE CmpFrac(_, _, _, _)
CmpFrac(a, b, c, d) ==
    LET qa == a \div b
        qc == c \div d
        ra == a % b
        rc == c % d
    IN  IF qa # qc THEN Sgn(qa - qc)
        ELSE IF ra = 0 \/ rc = 0 THEN Sgn(ra - rc)
        ELSE CmpFrac(d, rc, b, ra)

\* The sign of x - y for two fractions or infinities.
CmpRat(x, y) ==
    IF IsInf(x) \/ IsInf(y)
    THEN Sgn((IF IsInf(x) THEN x[1] ELSE 0) - (IF IsInf(y) THEN y[1] ELSE 0))
    ELSE CmpFrac(x[1], x[2], y[1], y[2])

\* A Bollinger band m + k * sqrt(v) (m the rolling mean, v the rolling variance,
\* v >= 0): the fraction m when v = 0, else kept as the triple <<m, k, v>>.
Surd(m, k, v) ==
    IF IsNaN(m) \/ IsNaN(v) THEN NaN
    ELSE IF v[1] = 0 \/ k = 0 THEN m
    ELSE <<m, k, v>>

\* The sign of t - k * sqrt(v) for a fraction t: decided by the signs of t and
\* k when they differ, else by comparing the squares.
CmpRoot(t, k, v) ==
    IF Sgn(t[1]) # Sgn(k) THEN Sgn(Sgn(t[1]) - Sgn(k))
    ELSE Sgn(k) * CmpRat(Mul(t, t), Mul(Num(k * k), v))

\* The sign of x - (m + k * sqrt(v)) for a fraction x and a band <<m, k, v>>.
CmpSurd(x, b) == CmpRoot(Sub(x, b[1]), b[2], b[3])

\* The sign of x - y for two numbers that are not NaN, at most one of them a band.
Cmp(x, y) ==
    IF Len(x) # 3 /\ Len(y) # 3 THEN CmpRat(x, y)
    ELSE (IF Len(y) = 3 THEN 1 ELSE -1)
         * CmpSurd(IF Len(y) = 3 THEN x ELSE y, IF Len(y) = 3 THEN y ELSE x)

\* Lt with a NaN operand comparing true.
Lt_nan(x, y) == IsNaN(x) \/ IsNaN(y) \/ Cmp(x, y) < 0

\* Comparisons: every comparison with a NaN operand is false.
Lt(x, y) == ~IsNaN(x) /\ ~IsNaN(y) /\ Cmp(x, y) < 0

Le(x, y) == ~IsNaN(x) /\ ~IsNaN(y) /\ Cmp(x, y) <= 0

Gt(x, y) == Lt(y, x)

Ge(x, y) == Le(y, x)

(***************************************************************************)
(* Columns (pandas Series) and the indicator library calls                 *)
(***************************************************************************)
Rows(col) == 1..Len(col)

\* A column holds its values: the function is evaluated once, when the column is
\* built, and not at every later read.
AsColumn(f) == f \o <<>>

\* The larger and the smaller of two numbers, a NaN skipped (DataFrame.max, skipna).
Max2(x, y) == IF IsNaN(x) THEN y ELSE IF IsNaN(y) THEN x ELSE IF Cmp(x, y) >= 0 THEN x ELSE y

Min2(x, y) == IF IsNaN(x) THEN y ELSE IF IsNaN(y) THEN x ELSE IF Cmp(x, y) <= 0 THEN x ELSE y

\* Shift towards earlier rows: row i takes the value of the later row i + k.
Shift_ahead(col, k) == AsColumn([i \in Rows(col) |-> IF i + k <= Len(col) THEN col[i + k] ELSE NaN])

\* Series.shift(k), k >= 0: row i takes the value of row i - k, NaN where there is none.
Shift(col, k) == AsColumn([i \in Rows(col) |-> IF i - k >= 1 THEN col[i - k] ELSE NaN])

\* Elementwise arithmetic of two aligned columns.
ColDiv(a, b) == AsColumn([i \in Rows(a) |-> Div(a[i], b[i])])

ColAdd(a, b) == AsColumn([i \in Rows(a) |-> Add(a[i], b[i])])

ColHalf(a) == AsColumn([i \in Rows(a) |-> Div(a[i], Num(2))])

\* Elementwise comparisons of two aligned columns, and of a column with a number.
GtCol(a, b) == AsColumn([i \in Rows(a) |-> Gt(a[i], b[i])])

GeCol(a, b) == AsColumn([i \in Rows(a) |-> Ge(a[i], b[i])])

LtCol(a, b) == AsColumn([i \in Rows(a) |-> Lt(a[i], b[i])])

LeCol(a, b) == AsColumn([i \in Rows(a) |-> Le(a[i], b[i])])

GtNum(a, x) == AsColumn([i \in Rows(a) |-> Gt(a[i], x)])

GeNum(a, x) == AsColumn([i \in Rows(a) |-> Ge(a[i], x)])

LtNum(a, x) == AsColumn([i \in Rows(a) |-> Lt(a[i], x)])

MulNum(a, x) == AsColumn([i \in Rows(a) |-> Mul(a[i], x)])

\* The operators & and | of two boolean columns.
AndCol(a, b) == AsColumn([i \in Rows(a) |-> a[i] /\ b[i]])

OrCol(a, b) == AsColumn([i \in Rows(a) |-> a[i] \/ b[i]])

\* ReduceAnd with | in place of &.
RECURSIVE ReduceAnd_or(_)
ReduceAnd_or(conditions) ==
    IF Len(conditions) = 1 THEN conditions[1]
    ELSE OrCol(ReduceAnd_or(SubSeq(conditions, 1, Len(conditions) - 1)),
               conditions[Len(conditions)])

\* reduce(lambda x, y: x & y, conditions) for a non-empty list.
RECURSIVE ReduceAnd(_)
ReduceAnd(conditions) ==
    IF Len(conditions) = 1 THEN conditions[1]
    ELSE AndCol(ReduceAnd(SubSeq(conditions, 1, Len(conditions) - 1)),
                conditions[Len(conditions)])

\* Sum, maximum and minimum of col[lo..hi] (the sum of an empty range is 0); the
\* range is halved so that the evaluation depth stays logarithmic.
RECURSIVE SumRange(_, _, _)
SumRange(col, lo, hi) ==
    IF lo > hi THEN Num(0)
    ELSE IF lo = hi THEN col[lo]
    ELSE Add(SumRange(col, lo, (lo + hi) \div 2), SumRange(col, (lo + hi) \div 2 + 1, hi))

RECURSIVE MaxRange(_, _, _)
MaxRange(col, lo, hi) ==
    IF lo = hi THEN col[lo]
    ELSE Max2(MaxRange(col, lo, (lo + hi) \div 2), MaxRange(col, (lo + hi) \div 2 + 1, hi))

RECURSIVE MinRange(_, _, _)
MinRange(col, lo, hi) ==
    IF lo = hi THEN col[lo]
    ELSE Min2(MinRange(col, lo, (lo + hi) \div 2), MinRange(col, (lo + hi) \div 2 + 1, hi))

\* talib SMA: the mean of the last n rows, NaN on the first n - 1 rows.
SMA(col, n) ==
    AsColumn([i \in Rows(col) |->
                 IF i < n THEN NaN ELSE Div(SumRange(col, i - n + 1, i), Num(n))])

\* talib EMA: NaN on the first n - 1 rows, seeded with the mean of the first n
\* rows, then prev + k * (x - prev) with k = 2 / (n + 1).  EmaRec appends rows
\* lo..hi to acc, which holds the rows before lo; the range is halved so that
\* the evaluation depth stays logarithmic.
EmaAt(col, n, i, acc) ==
    IF i < n THEN NaN
    ELSE IF i = n THEN Div(SumRange(col, 1, n), Num(n))
    ELSE Add(acc[i - 1], Mul(Rat(2, n + 1), Sub(col[i], acc[i - 1])))

RECURSIVE EmaRec(_, _, _, _, _)
EmaRec(col, n, lo, hi, acc) ==
    IF lo > hi THEN acc
    ELSE IF lo = hi THEN Append(acc, EmaAt(col, n, lo, acc))
    ELSE LET first == EmaRec(col, n, lo, (lo + hi) \div 2, acc)
         IN  IF Len(first) < hi THEN EmaRec(col, n, (lo + hi) \div 2 + 1, hi, first) ELSE first

EMA(col, n) == EmaRec(col, n, 1, Len(col), <<>>)

\* Series.rolling(window = n).max() and .min(): NaN on the first n - 1 rows.
RollingMax(col, n) == AsColumn([i \in Rows(col) |-> IF i < n THEN NaN ELSE MaxRange(col, i - n + 1, i)])

RollingMin(col, n) == AsColumn([i \in Rows(col) |-> IF i < n THEN NaN ELSE MinRange(col, i - n + 1, i)])

\* talib RSI (Wilder): NaN on the first n rows; at row n the averages of the
\* first n gains and losses, then prev * (n - 1) / n + new / n; 0 when both
\* averages are 0.
Positive(d) == IF d[1] > 0 THEN d ELSE Num(0)

Gain(col, i) == Positive(Sub(col[i], col[i - 1]))

Loss(col, i) == Positive(Sub(col[i - 1], col[i]))

RECURSIVE SumGain(_, _, _)
SumGain(col, lo, hi) ==
    IF lo > hi THEN Num(0)
    ELSE IF lo = hi THEN Gain(col, lo)
    ELSE Add(SumGain(col, lo, (lo + hi) \div 2), SumGain(col, (lo + hi) \div 2 + 1, hi))

RECURSIVE SumLoss(_, _, _)
SumLoss(col, lo, hi) ==
    IF lo > hi THEN Num(0)
    ELSE IF lo = hi THEN Loss(col, lo)
    ELSE Add(SumLoss(col, lo, (lo + hi) \div 2), SumLoss(col, (lo + hi) \div 2 + 1, hi))

RsiRatio(g, t) == IF t[1] = 0 THEN Num(0) ELSE Mul(Num(100), Div(g, t))

RsiValue(g, l) == RsiRatio(g, Add(g, l))

\* RsiRec appends rows lo..hi to acc.out, which holds the rows before lo; acc.g
\* and acc.l are the running averages of the gains and of the losses.
RsiStep(acc, g, l) == [g |-> g, l |-> l, out |-> Append(acc.out, RsiValue(g, l))]

RsiAt(col, n, i, acc) ==
    IF i <= n THEN [g |-> Num(0), l |-> Num(0), out |-> Append(acc.out, NaN)]
    ELSE IF i = n + 1
    THEN RsiStep(acc, Div(SumGain(col, 2, n + 1), Num(n)), Div(SumLoss(col, 2, n + 1), Num(n)))
    ELSE RsiStep(acc, Div(Add(Mul(acc.g, Num(n - 1)), Gain(col, i)), Num(n)),
                      Div(Add(Mul(acc.l, Num(n - 1)), Loss(col, i)), Num(n)))

RECURSIVE RsiRec(_, _, _, _, _)
RsiRec(col, n, lo, hi, acc) ==
    IF lo > hi THEN acc
    ELSE IF lo = hi THEN RsiAt(col, n, lo, acc)
    ELSE LET first == RsiRec(col, n, lo, (lo + hi) \div 2, acc)
         IN  IF Len(first.out) < hi THEN RsiRec(col, n, (lo + hi) \div 2 + 1, hi, first)
             ELSE first

RSI(col, n) == RsiRec(col, n, 1, Len(col), [g |-> Num(0), l |-> Num(0), out |-> <<>>]).out

\* talib ATR (Wilder): the true range is max(high - low, |high - prev close|,
\* |low - prev close|); NaN on the first n rows, at row n the mean of the first n
\* true ranges, then (prev * (n - 1) + tr) / n.
AbsNum(x) == <<Abs(x[1]), x[2]>>

TrueRange(high, low, close, i) ==
    Max2(Sub(high[i], low[i]),
         Max2(AbsNum(Sub(high[i], close[i - 1])), AbsNum(Sub(low[i], close[i - 1]))))

RECURSIVE SumTR(_, _, _, _, _)
SumTR(high, low, close, lo, hi) ==
    IF lo > hi THEN Num(0)
    ELSE IF lo = hi THEN TrueRange(high, low, close, lo)
    ELSE Add(SumTR(high, low, close, lo, (lo + hi) \div 2),
             SumTR(high, low, close, (lo + hi) \div 2 + 1, hi))

AtrAt(high, low, close, n, i, acc) ==
    IF i <= n THEN NaN
    ELSE IF i = n + 1 THEN Div(SumTR(high, low, close, 2, n + 1), Num(n))
    ELSE Div(Add(Mul(acc[i - 1], Num(n - 1)), TrueRange(high, low, close, i)), Num(n))

RECURSIVE AtrRec(_, _, _, _, _, _, _)
AtrRec(high, low, close, n, lo, hi, acc) ==
    IF lo > hi THEN acc
    ELSE IF lo = hi THEN Append(acc, AtrAt(high, low, close, n, lo, acc))
    ELSE LET first == AtrRec(high, low, close, n, lo, (lo + hi) \div 2, acc)
         IN  IF Len(first) < hi
             THEN AtrRec(high, low, close, n, (lo + hi) \div 2 + 1, hi, first)
             ELSE first

ATR(df, n) == AtrRec(df["high"], df["low"], df["close"], n, 1, Len(df["close"]), <<>>)

\* qtpylib.bollinger_bands(series, window, stds): the rolling mean and the rolling
\* sample standard deviation, both with min_periods = 1, so the mean is defined
\* from row 0 and the deviation from row 1; upper = ma + std * stds and
\* lower = ma - std * stds.
RECURSIVE SumSq(_, _, _)
SumSq(col, lo, hi) ==
    IF lo > hi THEN Num(0)
    ELSE IF lo = hi THEN Mul(col[lo], col[lo])
    ELSE Add(SumSq(col, lo, (lo + hi) \div 2), SumSq(col, (lo + hi) \div 2 + 1, hi))

WindowStart(w, i) == IF i - w + 1 >= 1 THEN i - w + 1 ELSE 1

RollingMean1(col, w, i) ==
    Div(SumRange(col, WindowStart(w, i), i), Num(i - WindowStart(w, i) + 1))

SampleVar(sq, sm, cnt) ==
    IF cnt < 2 THEN NaN ELSE Div(Sub(sq, Div(Mul(sm, sm), Num(cnt))), Num(cnt - 1))

RollingVar1(col, w, i) ==
    SampleVar(SumSq(col, WindowStart(w, i), i), SumRange(col, WindowStart(w, i), i),
              i - WindowStart(w, i) + 1)

BollingerBands(ma, var, stds) ==
    [upper |-> AsColumn([i \in Rows(ma) |-> Surd(ma[i], stds, var[i])]),
     mid   |-> ma,
     lower |-> AsColumn([i \in Rows(ma) |-> Surd(ma[i], -stds, var[i])])]

bollinger_bands(col, window, stds) ==
    BollingerBands(AsColumn([i \in Rows(col) |-> RollingMean1(col, window, i)]),
                   AsColumn([i \in Rows(col) |-> RollingVar1(col, window, i)]),
                   stds)

\* qtpylib.heikinashi(bars): ha_close is the mean of the candle's four prices;
\* ha_open at row 0 is the mean of open and close, then the mean of the previous
\* ha_open and ha_close; ha_high and ha_low are the row's maximum and minimum of
\* high (low), ha_open and ha_close.
HaClose(df, i) ==
    Div(Add(Add(df["open"][i], df["high"][i]), Add(df["low"][i], df["close"][i])), Num(4))

\* HaOpenAt averaging with the candle's own close in place of ha_close.
HaOpenAt_raw_close(df, i, acc) ==
    IF i = 1 THEN Div(Add(df["open"][1], df["close"][1]), Num(2))
    ELSE Div(Add(acc[i - 1], df["close"][i - 1]), Num(2))

HaOpenAt(df, i, acc) ==
    IF i = 1 THEN Div(Add(df["open"][1], df["close"][1]), Num(2))
    ELSE Div(Add(acc[i - 1], HaClose(df, i - 1)), Num(2))

RECURSIVE HaOpenRec(_, _, _, _)
HaOpenRec(df, lo, hi, acc) ==
    IF lo > hi THEN acc
    ELSE IF lo = hi THEN Append(acc, HaOpenAt(df, lo, acc))
    ELSE LET first == HaOpenRec(df, lo, (lo + hi) \div 2, acc)
         IN  IF Len(first) < hi THEN HaOpenRec(df, (lo + hi) \div 2 + 1, hi, first) ELSE first

HeikinAshiBars(df, ha_open, ha_close) ==
    [open  |-> ha_open,
     high  |-> AsColumn([i \in Rows(ha_open) |->
                           Max2(df["high"][i], Max2(ha_open[i], ha_close[i]))]),
     low   |-> AsColumn([i \in Rows(ha_open) |->
                           Min2(df["low"][i], Min2(ha_open[i], ha_close[i]))]),
     close |-> ha_close]

heikinashi(df) ==
    HeikinAshiBars(df, HaOpenRec(df, 1, Len(df["close"]), <<>>),
                   AsColumn([i \in Rows(df["close"]) |-> HaClose(df, i)]))

\* technical.indicators.ichimoku: the lines are midpoints of the rolling high and
\* low; senkou_span_a and senkou_span_b are the leading spans shifted by
\* displacement - 1 rows; cloud_green and cloud_red compare the shifted spans.
Midpoint(df, n) == ColHalf(ColAdd(RollingMax(df["high"], n), RollingMin(df["low"], n)))

IchimokuCloud(tenkan_sen, kijun_sen, leading_a, leading_b, senkou_span_a, senkou_span_b) ==
    [tenkan_sen |-> tenkan_sen,
     kijun_sen |-> kijun_sen,
     senkou_span_a |-> senkou_span_a,
     senkou_span_b |-> senkou_span_b,
     leading_senkou_span_a |-> leading_a,
     leading_senkou_span_b |-> leading_b,
     cloud_green |-> GtCol(senkou_span_a, senkou_span_b),
     cloud_red |-> GtCol(senkou_span_b, senkou_span_a)]

IchimokuSpans(tenkan_sen, kijun_sen, leading_a, leading_b, displacement) ==
    IchimokuCloud(tenkan_sen, kijun_sen, leading_a, leading_b,
                  Shift(leading_a, displacement - 1), Shift(leading_b, displacement - 1))

IchimokuLines(tenkan_sen, kijun_sen, leading_b, displacement) ==
    IchimokuSpans(tenkan_sen, kijun_sen, ColHalf(ColAdd(tenkan_sen, kijun_sen)), leading_b,
                  displacement)

ichimoku(df, conversion_line_period, base_line_periods, laggin_span, displacement) ==
    IchimokuLines(Midpoint(df, conversion_line_period), Midpoint(df, base_line_periods),
                  Midpoint(df, laggin_span), displacement)

\* crossed_below with > in place of >= on the previous row.
crossed_below_strict(series1, series2) ==
    AndCol(LtCol(series1, series2), GtCol(Shift(series1, 1), Shift(series2, 1)))

\* qtpylib.crossed_below(series1, series2):
\* (series1 < series2) & (series1.shift(1) >= series2.shift(1)).
crossed_below(series1, series2) ==
    AndCol(LtCol(series1, series2), GeCol(Shift(series1, 1), Shift(series2, 1)))

(***************************************************************************)
(* Dataframes                                                              *)
(***************************************************************************)
\* dataframe[name] = col: the column is added, or replaced when it exists.
SetCol(df, name, col) == (name :> col) @@ df

HasCol(df, name) == name \in DOMAIN df

NRows(df) == Len(df["close"])

\* SetWhere as dataframe[name] = np.where(mask, 1, 0): the other rows get 0.
SetWhere_zero(df, mask, name) ==
    SetCol(df, name, AsColumn([i \in 1..NRows(df) |-> IF mask[i] THEN Num(1) ELSE Num(0)]))

\* dataframe.loc[mask, name] = 1: the rows of the mask get 1, the other rows keep
\* their value; a column that did not exist is created with NaN on the other rows.
SetWhere(df, mask, name) ==
    SetCol(df, name,
           AsColumn([i \in 1..NRows(df) |->
                        IF mask[i] THEN Num(1)
                        ELSE IF HasCol(df, name) THEN df[name][i] ELSE NaN]))

(***************************************************************************)
(* GridStrategy                                                            *)
(***************************************************************************)
Grid_stoploss == Rat(-5, 100)

Grid_grid_spacing_percent == Num(2)

Grid_indicator_columns(df, bollinger) ==
    SetCol(SetCol(SetCol(SetCol(SetCol(SetCol(SetCol(SetCol(SetCol(SetCol(df,
        "sma_20", SMA(df["close"], 20)),
        "sma_50", SMA(df["close"], 50)),
        "rsi", RSI(df["close"], 14)),
        "atr", ATR(df, 14)),
        "bb_lowerband", bollinger.lower),
        "bb_upperband", bollinger.upper),
        "bb_middleband", bollinger.mid),
        "grid_buy_level",
            MulNum(df["close"], Sub(Num(1), Div(Grid_grid_spacing_percent, Num(100))))),
        "grid_sell_level",
            MulNum(df["close"], Add(Num(1), Div(Grid_grid_spacing_percent, Num(100))))),
        "volume_sma", SMA(df["volume"], 20))

Grid_populate_indicators(df) ==
    Grid_indicator_columns(df, bollinger_bands(df["close"], 20, 2))

\* Grid_entry_mask with close < bb_lowerband in place of <=.
Grid_entry_mask_strict(df) ==
    AndCol(AndCol(OrCol(OrCol(LtCol(df["close"], df["bb_lowerband"]),
                              LtNum(df["rsi"], Num(40))),
                        AndCol(LtCol(df["close"], df["sma_20"]),
                               GtCol(df["volume"], df["volume_sma"]))),
                  GtNum(df["volume"], Num(0))),
           GtNum(df["close"], Num(0)))

Grid_entry_mask(df) ==
    AndCol(AndCol(OrCol(OrCol(LeCol(df["close"], df["bb_lowerband"]),
                              LtNum(df["rsi"], Num(40))),
                        AndCol(LtCol(df["close"], df["sma_20"]),
                               GtCol(df["volume"], df["volume_sma"]))),
                  GtNum(df["volume"], Num(0))),
           GtNum(df["close"], Num(0)))

Grid_populate_entry_trend(df) == SetWhere(df, Grid_entry_mask(df), "enter_long")

Grid_exit_mask(df) ==
    AndCol(OrCol(OrCol(GeCol(df["close"], df["bb_upperband"]),
                       GtNum(df["rsi"], Num(60))),
                 AndCol(GtCol(df["close"], df["sma_20"]),
                        GtCol(df["volume"], df["volume_sma"]))),
           GtNum(df["volume"], Num(0)))

\* Grid_populate_exit_trend leaving out the rows flagged for entry.
Grid_populate_exit_trend_exclusive(df) ==
    SetWhere(df,
             AndCol(Grid_exit_mask(df),
                    [i \in 1..NRows(df) |->
                        ~(HasCol(df, "enter_long") /\ df["enter_long"][i] = Num(1))]),
             "exit_long")

Grid_populate_exit_trend(df) == SetWhere(df, Grid_exit_mask(df), "exit_long")

\* Grid_custom_stoploss with >= in place of >.
Grid_custom_stoploss_ge(current_profit) ==
    IF Ge(current_profit, Rat(1, 100)) THEN Rat(-2, 100) ELSE Grid_stoploss

Grid_custom_stoploss(current_profit) ==
    IF Gt(current_profit, Rat(1, 100)) THEN Rat(-2, 100) ELSE Grid_stoploss

(***************************************************************************)
(* GridStrategyV2                                                          *)
(***************************************************************************)
GridV2_stoploss == Rat(-6, 100)

GridV2_indicator_columns(df, bollinger) ==
    SetCol(SetCol(SetCol(SetCol(SetCol(df,
        "bb_lowerband", bollinger.lower),
        "bb_upperband", bollinger.upper),
        "bb_middleband", bollinger.mid),
        "rsi", RSI(df["close"], 14)),
        "volume_sma", SMA(df["volume"], 20))

GridV2_populate_indicators(df) ==
    GridV2_indicator_columns(df, bollinger_bands(df["close"], 20, 2))

\* GridV2_entry_mask with bb_upperband in place of bb_lowerband.
GridV2_entry_mask_upper(df) ==
    AndCol(OrCol(LeCol(df["close"], df["bb_upperband"]),
                 LtNum(df["rsi"], Num(30))),
           GtNum(df["volume"], Num(0)))

GridV2_entry_mask(df) ==
    AndCol(OrCol(LeCol(df["close"], df["bb_lowerband"]),
                 LtNum(df["rsi"], Num(30))),
           GtNum(df["volume"], Num(0)))

GridV2_populate_entry_trend(df) == SetWhere(df, GridV2_entry_mask(df), "enter_long")

\* GridV2_exit_mask with | in place of & between the band and the RSI condition.
GridV2_exit_mask_or(df) ==
    AndCol(OrCol(GeCol(df["close"], df["bb_upperband"]),
                 GtNum(df["rsi"], Num(70))),
           GtNum(df["volume"], Num(0)))

GridV2_exit_mask(df) ==
    AndCol(AndCol(GeCol(df["close"], df["bb_upperband"]),
                  GtNum(df["rsi"], Num(70))),
           GtNum(df["volume"], Num(0)))

GridV2_populate_exit_trend(df) == SetWhere(df, GridV2_exit_mask(df), "exit_long")

\* GridStrategyV2 defines no custom_stoploss: the one it inherits from IStrategy
\* returns self.stoploss.
GridV2_custom_stoploss(current_profit) == GridV2_stoploss

(***************************************************************************)
(* IchiV1_Fixed and IchiV1_Optimizable                                     *)
(***************************************************************************)
Ichi_stoploss == Rat(-275, 1000)

\* populate_indicators, the same statements in both classes.
Ichi_heikinashi_columns(df, heikin) ==
    SetCol(SetCol(SetCol(df, "open", heikin.open), "high", heikin.high),
           "low", heikin.low)

Ichi_heikinashi(df) == Ichi_heikinashi_columns(df, heikinashi(df))

Ichi_trend_close(df) ==
    SetCol(SetCol(SetCol(SetCol(SetCol(SetCol(SetCol(SetCol(df,
        "trend_close_5m", df["close"]),
        "trend_close_15m", EMA(df["close"], 3)),
        "trend_close_30m", EMA(df["close"], 6)),
        "trend_close_1h", EMA(df["close"], 12)),
        "trend_close_2h", EMA(df["close"], 24)),
        "trend_close_4h", EMA(df["close"], 48)),
        "trend_close_6h", EMA(df["close"], 72)),
        "trend_close_8h", EMA(df["close"], 96))

Ichi_trend_open(df) ==
    SetCol(SetCol(SetCol(SetCol(SetCol(SetCol(SetCol(SetCol(df,
        "trend_open_5m", df["open"]),
        "trend_open_15m", EMA(df["open"], 3)),
        "trend_open_30m", EMA(df["open"], 6)),
        "trend_open_1h", EMA(df["open"], 12)),
        "trend_open_2h", EMA(df["open"], 24)),
        "trend_open_4h", EMA(df["open"], 48)),
        "trend_open_6h", EMA(df["open"], 72)),
        "trend_open_8h", EMA(df["open"], 96))

Ichi_fan_magnitude(df) ==
    SetCol(df, "fan_magnitude", ColDiv(df["trend_close_1h"], df["trend_close_8h"]))

\* Ichi_fan_magnitude_gain with the ratio inverted.
Ichi_fan_magnitude_gain_inverse(df) ==
    SetCol(df, "fan_magnitude_gain",
           ColDiv(Shift(df["fan_magnitude"], 1), df["fan_magnitude"]))

Ichi_fan_magnitude_gain(df) ==
    SetCol(df, "fan_magnitude_gain",
           ColDiv(df["fan_magnitude"], Shift(df["fan_magnitude"], 1)))

Ichi_ichimoku_columns(df, ichi) ==
    SetCol(SetCol(SetCol(SetCol(SetCol(SetCol(SetCol(SetCol(df,
        "tenkan_sen", ichi.tenkan_sen),
        "kijun_sen", ichi.kijun_sen),
        "senkou_a", ichi.senkou_span_a),
        "senkou_b", ichi.senkou_span_b),
        "leading_senkou_span_a", ichi.leading_senkou_span_a),
        "leading_senkou_span_b", ichi.leading_senkou_span_b),
        "cloud_green", ichi.cloud_green),
        "cloud_red", ichi.cloud_red)

Ichi_ichimoku(df) == Ichi_ichimoku_columns(df, ichimoku(df, 20, 60, 120, 30))

Ichi_atr(df) == SetCol(df, "atr", ATR(df, 14))

\* populate_indicators runs its sections in the order of the source.
Ichi_populate_indicators(df) ==
    Ichi_atr(Ichi_ichimoku(Ichi_fan_magnitude_gain(Ichi_fan_magnitude(
        Ichi_trend_open(Ichi_trend_close(Ichi_heikinashi(df)))))))

\* ShiftConditions with the longest lag alone, shift(shift_value).
RECURSIVE ShiftConditions_last(_, _, _)
ShiftConditions_last(df, x, shift_value) ==
    IF x >= shift_value THEN <<>>
    ELSE IF x + 1 < shift_value THEN ShiftConditions_last(df, x + 1, shift_value)
    ELSE <<LtCol(Shift(df["fan_magnitude"], x + 1), df["fan_magnitude"])>>

\* ShiftConditions with shift(x) in place of shift(x + 1).
RECURSIVE ShiftConditions_from_zero(_, _, _)
ShiftConditions_from_zero(df, x, shift_value) ==
    IF x >= shift_value THEN <<>>
    ELSE <<LtCol(Shift(df["fan_magnitude"], x), df["fan_magnitude"])>>
         \o ShiftConditions_from_zero(df, x + 1, shift_value)

\* The list of conditions populate_entry_trend builds, the same statements in both
\* classes; the four settings are read from self.buy_params in IchiV1_Fixed and
\* from the parameters' .value in IchiV1_Optimizable.
RECURSIVE ShiftConditions(_, _, _)
ShiftConditions(df, x, shift_value) ==
    IF x >= shift_value THEN <<>>
    ELSE <<LtCol(Shift(df["fan_magnitude"], x + 1), df["fan_magnitude"])>>
         \o ShiftConditions(df, x + 1, shift_value)

Ichi_entry_conditions(df, above_senkou_level, bullish_level, min_gain, shift_value) ==
    LET
        c1 == IF above_senkou_level >= 1
              THEN <<GtCol(df["trend_close_5m"], df["senkou_a"]),
                     GtCol(df["trend_close_5m"], df["senkou_b"])>>
              ELSE <<>>
        c2 == IF above_senkou_level >= 2
              THEN <<GtCol(df["trend_close_15m"], df["senkou_a"]),
                     GtCol(df["trend_close_15m"], df["senkou_b"])>>
              ELSE <<>>
        c3 == IF above_senkou_level >= 3
              THEN <<GtCol(df["trend_close_30m"], df["senkou_a"]),
                     GtCol(df["trend_close_30m"], df["senkou_b"])>>
              ELSE <<>>
        c4 == IF above_senkou_level >= 4
              THEN <<GtCol(df["trend_close_1h"], df["senkou_a"]),
                     GtCol(df["trend_close_1h"], df["senkou_b"])>>
              ELSE <<>>
        c5 == IF above_senkou_level >= 5
              THEN <<GtCol(df["trend_close_2h"], df["senkou_a"]),
                     GtCol(df["trend_close_2h"], df["senkou_b"])>>
              ELSE <<>>
        c6 == IF above_senkou_level >= 6
              THEN <<GtCol(df["trend_close_4h"], df["senkou_a"]),
                     GtCol(df["trend_close_4h"], df["senkou_b"])>>
              ELSE <<>>
        c7 == IF above_senkou_level >= 7
              THEN <<GtCol(df["trend_close_6h"], df["senkou_a"]),
                     GtCol(df["trend_close_6h"], df["senkou_b"])>>
              ELSE <<>>
        c8 == IF above_senkou_level >= 8
              THEN <<GtCol(df["trend_close_8h"], df["senkou_a"]),
                     GtCol(df["trend_close_8h"], df["senkou_b"])>>
              ELSE <<>>
        b1 == IF bullish_level >= 1
              THEN <<GtCol(df["trend_close_5m"], df["trend_open_5m"])>>
              ELSE <<>>
        b2 == IF bullish_level >= 2
              THEN <<GtCol(df["trend_close_15m"], df["trend_open_15m"])>>
              ELSE <<>>
        b3 == IF bullish_level >= 3
              THEN <<GtCol(df["trend_close_30m"], df["trend_open_30m"])>>
              ELSE <<>>
        b4 == IF bullish_level >= 4
              THEN <<GtCol(df["trend_close_1h"], df["trend_open_1h"])>>
              ELSE <<>>
        b5 == IF bullish_level >= 5
              THEN <<GtCol(df["trend_close_2h"], df["trend_open_2h"])>>
              ELSE <<>>
        b6 == IF bullish_level >= 6
              THEN <<GtCol(df["trend_close_4h"], df["trend_open_4h"])>>
              ELSE <<>>
        b7 == IF bullish_level >= 7
              THEN <<GtCol(df["trend_close_6h"], df["trend_open_6h"])>>
              ELSE <<>>
        b8 == IF bullish_level >= 8
              THEN <<GtCol(df["trend_close_8h"], df["trend_open_8h"])>>
              ELSE <<>>
        g1 == <<GeNum(df["fan_magnitude_gain"], min_gain)>>
        g2 == <<GtNum(df["fan_magnitude"], Num(1))>>
        g3 == ShiftConditions(df, 0, shift_value)
    IN  c1 \o c2 \o c3 \o c4 \o c5 \o c6 \o c7 \o c8
           \o b1 \o b2 \o b3 \o b4 \o b5 \o b6 \o b7 \o b8 \o g1 \o g2 \o g3

\* if conditions: dataframe.loc[reduce(lambda x, y: x & y, conditions), flag] = 1
SetWhereAll(df, conditions, flag) ==
    IF Len(conditions) > 0 THEN SetWhere(df, ReduceAnd(conditions), flag) ELSE df

Ichi_entry(df, above_senkou_level, bullish_level, min_gain, shift_value) ==
    SetWhereAll(df,
                Ichi_entry_conditions(df, above_senkou_level, bullish_level, min_gain,
                                      shift_value),
                "enter_long")

Fixed_populate_entry_trend(df, p) ==
    Ichi_entry(df, p.buy_params.buy_trend_above_senkou_level,
               p.buy_params.buy_trend_bullish_level,
               p.buy_params.buy_min_fan_magnitude_gain,
               p.buy_params.buy_fan_magnitude_shift_value)

\* Optimizable_populate_entry_trend reading the buy_params dictionary.
Optimizable_populate_entry_trend_dict(df, p) ==
    Ichi_entry(df, p.buy_params.buy_trend_above_senkou_level,
               p.buy_params.buy_trend_bullish_level,
               p.buy_params.buy_min_fan_magnitude_gain,
               p.buy_params.buy_fan_magnitude_shift_value)

Optimizable_populate_entry_trend(df, p) ==
    Ichi_entry(df, p.value.buy_trend_above_senkou_level,
               p.value.buy_trend_bullish_level,
               p.value.buy_min_fan_magnitude_gain,
               p.value.buy_fan_magnitude_shift_value)

\* Ichi_exit crossing the base line kijun_sen instead of the configured column.
Ichi_exit_kijun(df, sell_trend_indicator) ==
    SetWhereAll(df, <<crossed_below(df["trend_close_5m"], df["kijun_sen"])>>, "exit_long")

\* populate_exit_trend: one condition, trend_close_5m crossed below the column
\* the sell_trend_indicator setting names.
Ichi_exit(df, sell_trend_indicator) ==
    SetWhereAll(df, <<crossed_below(df["trend_close_5m"], df[sell_trend_indicator])>>,
                "exit_long")

\* Fixed_populate_exit_trend with the slowest horizon in place of the setting.
Fixed_populate_exit_trend_8h(df, p) == Ichi_exit(df, "trend_close_8h")

Fixed_populate_exit_trend(df, p) == Ichi_exit(df, p.sell_params.sell_trend_indicator)

\* Optimizable_populate_exit_trend reading the sell_params dictionary.
Optimizable_populate_exit_trend_dict(df, p) ==
    Ichi_exit(df, p.sell_params.sell_trend_indicator)

Optimizable_populate_exit_trend(df, p) == Ichi_exit(df, p.value.sell_trend_indicator)

(***************************************************************************)
(* The four strategy classes behind the host's interface                   *)
(***************************************************************************)
Strategies == {"GridStrategy", "GridStrategyV2", "IchiV1_Fixed", "IchiV1_Optimizable"}

IsIchi(s) == s \in {"IchiV1_Fixed", "IchiV1_Optimizable"}

startup_candle_count(s) == IF IsIchi(s) THEN 96 ELSE 30

\* Whether the class's populate_* methods take the metadata argument:
\* IchiV1_Fixed declares them as (self, dataframe) only.
TakesMetadata(s) == s # "IchiV1_Fixed"

populate_indicators(s, df) ==
    CASE s = "GridStrategy" -> Grid_populate_indicators(df)
      [] s = "GridStrategyV2" -> GridV2_populate_indicators(df)
      [] OTHER -> Ichi_populate_indicators(df)

populate_entry_trend(s, df, p) ==
    CASE s = "GridStrategy" -> Grid_populate_entry_trend(df)
      [] s = "GridStrategyV2" -> GridV2_populate_entry_trend(df)
      [] s = "IchiV1_Fixed" -> Fixed_populate_entry_trend(df, p)
      [] OTHER -> Optimizable_populate_entry_trend(df, p)

populate_exit_trend(s, df, p) ==
    CASE s = "GridStrategy" -> Grid_populate_exit_trend(df)
      [] s = "GridStrategyV2" -> GridV2_populate_exit_trend(df)
      [] s = "IchiV1_Fixed" -> Fixed_populate_exit_trend(df, p)
      [] OTHER -> Optimizable_populate_exit_trend(df, p)

\* The TypeError of a call whose arguments do not fit the method's signature:
\* a metadata argument the method does not declare, or a declared one missing.
TypeError(metadata) ==
    IF metadata THEN "TypeError: takes 2 positional arguments but 3 were given"
    ELSE "TypeError: missing 1 required positional argument: 'metadata'"

\* dataframe[name] raises KeyError when the table has no column of that name:
\* the one column name the code takes from a setting is sell_trend_indicator.
KeyError(s, df, p) ==
    /\ IsIchi(s)
    /\ ~HasCol(df, IF s = "IchiV1_Fixed" THEN p.sell_params.sell_trend_indicator
                   ELSE p.value.sell_trend_indicator)

\* The Ichi classes define no custom_stoploss either and inherit IStrategy's.
custom_stoploss(s, current_profit) ==
    CASE s = "GridStrategy" -> Grid_custom_stoploss(current_profit)
      [] s = "GridStrategyV2" -> GridV2_custom_stoploss(current_profit)
      [] OTHER -> Ichi_stoploss

(***************************************************************************)
(* Settings                                                                *)
(***************************************************************************)
TrendClose ==
    <<"trend_close_5m", "trend_close_15m", "trend_close_30m", "trend_close_1h",
      "trend_close_2h", "trend_close_4h", "trend_close_6h", "trend_close_8h">>

TrendOpen ==
    <<"trend_open_5m", "trend_open_15m", "trend_open_30m", "trend_open_1h",
      "trend_open_2h", "trend_open_4h", "trend_open_6h", "trend_open_8h">>

BuyParams(senkou, bullish, shift, gain) ==
    [buy_trend_above_senkou_level |-> senkou,
     buy_trend_bullish_level |-> bullish,
     buy_fan_magnitude_shift_value |-> shift,
     buy_min_fan_magnitude_gain |-> gain]

\* IchiV1_Fixed's class attributes buy_params and sell_params.
Fixed_params ==
    [buy_params |-> BuyParams(1, 4, 1, Rat(1001, 1000)),
     sell_params |-> [sell_trend_indicator |-> "trend_close_30m"]]

\* IchiV1_Optimizable's class attributes buy_params and sell_params, and the
\* current value of its five parameters.
Optimizable_params(v) ==
    [buy_params |-> BuyParams(1, 6, 3, Rat(1002, 1000)),
     sell_params |-> [sell_trend_indicator |-> "trend_close_30m"],
     value |-> v]

Value(senkou, bullish, shift, gain, sell) ==
    [buy_trend_above_senkou_level |-> senkou,
     buy_trend_bullish_level |-> bullish,
     buy_fan_magnitude_shift_value |-> shift,
     buy_min_fan_magnitude_gain |-> gain,
     sell_trend_indicator |-> sell]

(***************************************************************************)
(* Inputs of the lifecycle: candle series                                  *)
(***************************************************************************)
\* The number of free candles that end a series.
MaxTail == 2

Candle(o, h, l, c, v) == [open |-> o, high |-> h, low |-> l, close |-> c, volume |-> v]

\* A flat candle, a rising and a falling one, and a candle of an interval
\* without trades.
FlatCandle == Candle(2, 2, 2, 2, 1)

Candles == {FlatCandle, Candle(2, 3, 2, 3, 2), Candle(2, 2, 1, 1, 2), Candle(2, 2, 2, 2, 0)}

\* The lengths of the flat run that starts a series: none, and runs that reach
\* the first defined row of RSI(14), of SMA(20) and of EMA(96).
PrefixLens == {0, 14, 19, 95}

Tails == UNION {[1..k -> Candles] : k \in 0..MaxTail}

Series(p, tail) == [i \in 1..(p + Len(tail)) |-> IF i <= p THEN FlatCandle ELSE tail[i - p]]

Frame(series) ==
    [open   |-> [i \in 1..Len(series) |-> Num(series[i].open)],
     high   |-> [i \in 1..Len(series) |-> Num(series[i].high)],
     low    |-> [i \in 1..Len(series) |-> Num(series[i].low)],
     close  |-> [i \in 1..Len(series) |-> Num(series[i].close)],
     volume |-> [i \in 1..Len(series) |-> Num(series[i].volume)]]

\* The longest series: one row more than the longest warm-up count.  The exact
\* fractions of the fan over further rows past the seed of EMA(96) do not fit
\* 32-bit integers.
MaxSeries == startup_candle_count("IchiV1_Fixed") + 1

\* The rows before senkou_b has its first value: the 120-row window of the
\* second leading span, displaced by 30 - 1 rows.
CloudRows == 120 + 30 - 2

\* The series: a flat run and up to MaxTail free candles, and long series that
\* end in one or two free candles on rows where the cloud is defined.  The
\* series longer than the warm-up count of the Grid strategies end in candles
\* with trades.
RawFrames ==
    {Frame(Series(x[1], x[2])) :
        x \in {y \in (PrefixLens \cup {CloudRows}) \X Tails :
                  /\ Len(y[2]) > 0
                  /\ \/ y[1] + Len(y[2]) <= MaxSeries
                     \/ /\ y[1] = CloudRows
                        /\ Len(y[2]) <= MaxSeries - startup_candle_count("IchiV1_Fixed") + 1
                  /\ \/ y[1] < startup_candle_count("GridStrategy")
                     \/ \A i \in 1..Len(y[2]) : y[2][i].volume > 0}}

\* The values the optimizer's parameters hold in the lifecycle: the defaults
\* loaded from buy_params and sell_params, and a sell_trend_indicator loaded
\* from a parameter file that names no column.
LifecycleValues ==
    {Value(1, 6, 3, Rat(1002, 1000), "trend_close_30m"),
     Value(1, 6, 3, Rat(1002, 1000), "trend_close_10m")}

\* The sell_params dictionary of IchiV1_Fixed as written in the class, and
\* edited to name no column.
LifecycleParams(s) ==
    CASE s = "IchiV1_Fixed" ->
            {Fixed_params,
             [Fixed_params EXCEPT !.sell_params.sell_trend_indicator = "trend_close_10m"]}
      [] s = "IchiV1_Optimizable" -> {Optimizable_params(v) : v \in LifecycleValues}
      [] OTHER -> {<<>>}

\* The running profits the host queries the stop-loss hook with.
Profits == {Rat(k, 1000) : k \in {-10, 0, 5, 10, 11, 15, 20}}

NoCall == <<>>

(***************************************************************************)
(* The lifecycle: indicators, entry signal, exit signal, stop-loss hook    *)
(***************************************************************************)
Init ==
    /\ strategy \in Strategies
    /\ candles \in RawFrames
    /\ dataframe = candles
    /\ params \in LifecycleParams(strategy)
    /\ pc = "start"
    /\ stoploss_ret = NoCall

\* A call populate_indicators(dataframe, metadata), or without metadata; the call
\* raises TypeError when the arguments do not fit the method's signature.
PopulateIndicators ==
    /\ pc = "start"
    /\ \E metadata \in BOOLEAN :
          IF metadata = TakesMetadata(strategy)
          THEN /\ dataframe' = populate_indicators(strategy, dataframe)
               /\ pc' = "indicators"
          ELSE /\ pc' = TypeError(metadata)
               /\ UNCHANGED dataframe
    /\ UNCHANGED <<strategy, candles, params, stoploss_ret>>

PopulateEntryTrend ==
    /\ pc = "indicators"
    /\ \E metadata \in BOOLEAN :
          IF metadata = TakesMetadata(strategy)
          THEN /\ dataframe' = populate_entry_trend(strategy, dataframe, params)
               /\ pc' = "entry"
          ELSE /\ pc' = TypeError(metadata)
               /\ UNCHANGED dataframe
    /\ UNCHANGED <<strategy, candles, params, stoploss_ret>>

PopulateExitTrend ==
    /\ pc = "entry"
    /\ \E metadata \in BOOLEAN :
          IF metadata # TakesMetadata(strategy)
          THEN /\ pc' = TypeError(metadata)
               /\ UNCHANGED dataframe
          ELSE IF KeyError(strategy, dataframe, params)
          THEN /\ pc' = "KeyError"
               /\ UNCHANGED dataframe
          ELSE /\ dataframe' = populate_exit_trend(strategy, dataframe, params)
               /\ pc' = "exit"
    /\ UNCHANGED <<strategy, candles, params, stoploss_ret>>

\* The host's query custom_stoploss(pair, trade, current_time, current_rate,
\* current_profit); the result depends on current_profit alone.
CustomStoploss ==
    /\ pc = "exit"
    /\ \E current_profit \in Profits :
          stoploss_ret' = [current_profit |-> current_profit,
                           ret |-> custom_stoploss(strategy, current_profit)]
    /\ UNCHANGED <<strategy, candles, dataframe, params, pc>>

Next == PopulateIndicators \/ PopulateEntryTrend \/ PopulateExitTrend \/ CustomStoploss

Spec == Init /\ [][Next]_vars

(***************************************************************************)
(* populate_indicators called again on the table its first call returned:  *)
(* the method assigns its columns into the DataFrame it is given and       *)
(* returns that same object.                                               *)
(***************************************************************************)
RepeatPopulateIndicators ==
    /\ pc = "indicators"
    /\ \E metadata \in BOOLEAN :
          IF metadata = TakesMetadata(strategy)
          THEN /\ dataframe' = populate_indicators(strategy, dataframe)
               /\ pc' = "repeated"
          ELSE /\ pc' = TypeError(metadata)
               /\ UNCHANGED dataframe
    /\ UNCHANGED <<strategy, candles, params, stoploss_ret>>

NextRepeat == PopulateIndicators \/ RepeatPopulateIndicators

SpecRepeat == Init /\ [][NextRepeat]_vars

(***************************************************************************)
(* The three calls of the host on one series, and the series one candle    *)
(* earlier                                                                 *)
(***************************************************************************)
Lifecycle(s, df, p) ==
    populate_exit_trend(s, populate_entry_trend(s, populate_indicators(s, df), p), p)

DropLast(df) == [name \in DOMAIN df |-> SubSeq(df[name], 1, Len(df[name]) - 1)]

(***************************************************************************)
(* The signal functions on their own: populate_entry_trend and             *)
(* populate_exit_trend applied to a table that already holds the indicator *)
(* columns they read.                                                      *)
(***************************************************************************)
\* The number of rows of an IchiV1 table, and the largest lag setting tried.
MaxRows == 3

MaxShift == 2

\* The values a cell takes besides its base value.
Deviations == {NaN, Num(1), Num(2)}

IchiColumns ==
    {TrendClose[h] : h \in 1..Len(TrendClose)} \cup {TrendOpen[h] : h \in 1..Len(TrendOpen)}
    \cup {"senkou_a", "senkou_b", "fan_magnitude", "fan_magnitude_gain"}

\* The base table: on every row each horizon closes above its open and above
\* the cloud, the fan is open and widening from row to row, and its gain is 2.
BaseCell(name, i) ==
    IF name \in {TrendClose[h] : h \in 1..Len(TrendClose)} THEN Num(2)
    ELSE IF name \in {TrendOpen[h] : h \in 1..Len(TrendOpen)} THEN Num(1)
    ELSE IF name \in {"senkou_a", "senkou_b"} THEN Num(0)
    ELSE IF name = "fan_magnitude" THEN Num(i + 1)
    ELSE Num(2)

\* trend_close_5m is the close column itself.
Aliased(name) == IF name = "close" THEN "trend_close_5m" ELSE name

\* The base table with the value v in one cell.
IchiTable(cell, v) ==
    [name \in IchiColumns \cup {"close"} |->
        [i \in 1..MaxRows |->
            IF <<Aliased(name), i>> = cell THEN v ELSE BaseCell(Aliased(name), i)]]

EntryTables ==
    {IchiTable(<<name, i>>, v) : name \in IchiColumns, i \in 1..MaxRows, v \in Deviations}

\* The base table with the values a of trend_close_5m and b of X on the rows r
\* and r + 1.
ExitCell(name, i, r, v) ==
    IF i = r THEN v[1] ELSE IF i = r + 1 THEN v[2] ELSE BaseCell(name, i)

ExitTable(X, r, a, b) ==
    [name \in IchiColumns \cup {"close"} |->
        [i \in 1..MaxRows |->
            IF Aliased(name) = "trend_close_5m" THEN ExitCell(Aliased(name), i, r, a)
            ELSE IF name = X THEN ExitCell(name, i, r, b)
            ELSE BaseCell(name, i)]]

ExitTables(X) ==
    {ExitTable(X, r, a, b) :
        r \in 1..(MaxRows - 1), a \in [1..2 -> Deviations], b \in [1..2 -> Deviations]}

SellIndicators == {"trend_close_5m", "trend_close_30m"}

\* The level settings tried: every split of the horizons between the two
\* levels, and both levels at 1.
LevelPairs == {<<k, Len(TrendClose) - k>> : k \in 0..Len(TrendClose)} \cup {<<1, 1>>}

\* buy_params of IchiV1_Fixed is a dictionary the methods read at every call.
Fixed_entry_params ==
    {[buy_params |-> BuyParams(l[1], l[2], s, g),
      sell_params |-> Fixed_params.sell_params] :
        l \in LevelPairs, s \in 0..MaxShift, g \in {Num(1), Rat(1001, 1000)}}

Fixed_exit_params(X) ==
    [buy_params |-> Fixed_params.buy_params, sell_params |-> [sell_trend_indicator |-> X]]

\* The parameters of IchiV1_Optimizable hold values of their declared ranges.
Optimizable_entry_params ==
    {Optimizable_params(Value(l[1], l[2], s, Rat(1001, 1000), "trend_close_30m")) :
        l \in {m \in LevelPairs : m[1] >= 1 /\ m[2] >= 1}, s \in 1..MaxShift}

Optimizable_exit_params(X) == Optimizable_params(Value(1, 6, 3, Rat(1002, 1000), X))

\* A table of the Grid strategies: a quiet first row whose close lies on the
\* lower band, and a second row with every combination of the values below.
GridRow(close, volume, volume_sma, bb_lowerband, bb_upperband, rsi, sma_20) ==
    [close |-> close, volume |-> volume, volume_sma |-> volume_sma,
     bb_lowerband |-> bb_lowerband, bb_upperband |-> bb_upperband,
     rsi |-> rsi, sma_20 |-> sma_20]

GridRows ==
    {GridRow(c, v, vs, lo, up, r, sm) :
        c \in {Num(0), Num(2)}, v \in {Num(0), Num(100)}, vs \in {NaN, Num(50), Num(100)},
        lo \in {NaN, Num(1), Num(2)}, up \in {NaN, Num(2), Num(3)},
        r \in {NaN, Num(29), Num(30), Num(39), Num(40), Num(60), Num(61), Num(70), Num(71)},
        sm \in {NaN, Num(1), Num(2), Num(3)}}

QuietRow == GridRow(Num(2), Num(100), Num(50), Num(2), Num(3), Num(50), Num(2))

GridTable(row) ==
    [name \in DOMAIN row |-> <<QuietRow[name], row[name]>>]

GridTables == {GridTable(row) : row \in GridRows}

Input(df, p) == [dataframe |-> df, params |-> p]

SignalInputs(s) ==
    CASE s = "IchiV1_Fixed" ->
            {Input(t, p) : t \in EntryTables, p \in Fixed_entry_params}
            \cup UNION {{Input(t, Fixed_exit_params(X)) : t \in ExitTables(X)} :
                           X \in SellIndicators}
      [] s = "IchiV1_Optimizable" ->
            {Input(t, p) : t \in EntryTables, p \in Optimizable_entry_params}
            \cup UNION {{Input(t, Optimizable_exit_params(X)) : t \in ExitTables(X)} :
                           X \in SellIndicators}
      [] OTHER -> {Input(t, <<>>) : t \in GridTables}

InitSignals ==
    /\ strategy \in Strategies
    /\ \E input \in SignalInputs(strategy) :
          /\ dataframe = input.dataframe
          /\ params = input.params
    /\ candles = <<>>
    /\ pc = "indicators"
    /\ stoploss_ret = NoCall

\* The values the optimizer assigns between two computations: none of them is
\* a value the parameters start with, and each differs from the buy_params and
\* sell_params dictionaries in every parameter.
OptimizerValues ==
    {Value(2, 3, 1, Rat(1005, 1000), "trend_close_5m"),
     Value(3, 1, 2, Rat(101, 100), "trend_close_15m")}

\* The indicator table as the host hands it to the next computation: without
\* the flag columns of the last one.
FreshTable(df) == [name \in DOMAIN df \ {"enter_long", "exit_long"} |-> df[name]]

\* The optimizer assigns new values to the parameters of IchiV1_Optimizable
\* after a signal computation, and the host computes the signals again.
AssignValue ==
    /\ strategy = "IchiV1_Optimizable"
    /\ pc \in {"entry", "exit"}
    /\ \E v \in OptimizerValues : params' = [params EXCEPT !.value = v]
    /\ dataframe' = FreshTable(dataframe)
    /\ pc' = "indicators"
    /\ UNCHANGED <<strategy, candles, stoploss_ret>>

NextSignals == PopulateEntryTrend \/ PopulateExitTrend \/ AssignValue

SpecSignals == InitSignals /\ [][NextSignals]_vars

(***************************************************************************)
(* The signal functions called again on the table they already flagged:    *)
(* the three methods assign into the DataFrame they are given, so a table  *)
(* whose indicator columns are computed anew keeps the flag columns of the *)
(* earlier signal computation.                                             *)
(***************************************************************************)
\* The indicator values of the later computation.  Grid strategies: the quiet
\* row and a row of an interval without trades.  IchiV1: the base table with
\* an undefined fan.  No rule matches on the second row of either table.
RefreshTables(s) ==
    IF IsIchi(s)
    THEN {[name \in IchiColumns \cup {"close"} |->
              [i \in 1..MaxRows |->
                  IF name = "fan_magnitude" THEN NaN ELSE BaseCell(Aliased(name), i)]]}
    ELSE {GridTable(GridRow(Num(2), Num(0), Num(50), Num(1), Num(3), Num(50), Num(2)))}

RefreshIndicators ==
    /\ pc = "exit"
    /\ \E t \in RefreshTables(strategy) :
          dataframe' = [name \in DOMAIN dataframe |->
                           IF name \in DOMAIN t THEN t[name] ELSE dataframe[name]]
    /\ pc' = "indicators"
    /\ UNCHANGED <<strategy, candles, params, stoploss_ret>>

NextFlags == PopulateEntryTrend \/ PopulateExitTrend \/ RefreshIndicators

SpecFlags == InitSignals /\ [][NextFlags]_vars

(***************************************************************************)
(* Properties                                                              *)
(***************************************************************************)
Cell(name, i) == dataframe[name][i]

Flagged(name, i) == HasCol(dataframe, name) /\ Cell(name, i) = Num(1)

HookCalled == DOMAIN stoploss_ret # {}

\* The setting the entry method of the running IchiV1 class reads.
EntrySetting(name) ==
    IF strategy = "IchiV1_Fixed" THEN params.buy_params[name] ELSE params.value[name]

SellTrendIndicator ==
    IF strategy = "IchiV1_Fixed" THEN params.sell_params.sell_trend_indicator
    ELSE params.value.sell_trend_indicator

\* C1: for every strategy and every candle series with fewer rows than the
\* strategy's startup_candle_count, after populate_indicators,
\* populate_entry_trend and populate_exit_trend no row has its entry flag set
\* and no row has its exit flag set.
C1_NoFlagBelowStartupCount ==
    (pc = "exit" /\ NRows(dataframe) < startup_candle_count(strategy)) =>
        \A i \in 1..NRows(dataframe) :
            ~Flagged("enter_long", i) /\ ~Flagged("exit_long", i)

\* The conditions of C2 at row i; a lag that reaches before the first row has
\* no value and compares false.
C2_EntryRule(i) ==
    /\ \A h \in 1..EntrySetting("buy_trend_above_senkou_level") :
          /\ Gt(Cell(TrendClose[h], i), Cell("senkou_a", i))
          /\ Gt(Cell(TrendClose[h], i), Cell("senkou_b", i))
    /\ \A h \in 1..EntrySetting("buy_trend_bullish_level") :
          Gt(Cell(TrendClose[h], i), Cell(TrendOpen[h], i))
    /\ Ge(Cell("fan_magnitude_gain", i), EntrySetting("buy_min_fan_magnitude_gain"))
    /\ Gt(Cell("fan_magnitude", i), Num(1))
    /\ \A s \in 1..EntrySetting("buy_fan_magnitude_shift_value") :
          i - s >= 1 /\ Lt(Cell("fan_magnitude", i - s), Cell("fan_magnitude", i))

\* C2: in IchiV1 (Fixed and Optimizable) populate_entry_trend sets the entry
\* flag at row i if and only if at row i each of the K1 fastest horizons closes
\* above senkou_a and senkou_b, each of the K2 fastest horizons has trend_close
\* above trend_open, fan_magnitude_gain >= buy_min_fan_magnitude_gain,
\* fan_magnitude > 1, and fan_magnitude at every lag 1..S is below its value at
\* row i.
C2_EntryIffAllConditions ==
    (pc = "entry" /\ IsIchi(strategy)) =>
        \A i \in 1..NRows(dataframe) : Flagged("enter_long", i) <=> C2_EntryRule(i)

C2_Witness ==
    /\ pc = "entry" /\ IsIchi(strategy)
    /\ EntrySetting("buy_trend_above_senkou_level") >= 2
    /\ EntrySetting("buy_fan_magnitude_shift_value") >= 1
    /\ \E i \in 1..NRows(dataframe) : Flagged("enter_long", i)
    /\ \E i \in 1..NRows(dataframe) : ~Flagged("enter_long", i)

C3_Settings ==
    /\ IsIchi(strategy)
    /\ EntrySetting("buy_trend_above_senkou_level") = 1
    /\ EntrySetting("buy_trend_bullish_level") = 1
    /\ EntrySetting("buy_min_fan_magnitude_gain") = Num(1)
    /\ EntrySetting("buy_fan_magnitude_shift_value") = 0

C3_FourConditions(i) ==
    /\ Gt(Cell("trend_close_5m", i), Cell("senkou_a", i))
    /\ Gt(Cell("trend_close_5m", i), Cell("senkou_b", i))
    /\ Gt(Cell("trend_close_5m", i), Cell("trend_open_5m", i))
    /\ Gt(Cell("fan_magnitude", i), Num(1))

\* C3 as stated: with the levels at 1, the minimum gain 1.0 and the lag setting
\* 0, the entry flag at row i is set if and only if trend_close_5m is above
\* senkou_a, senkou_b and trend_open_5m and fan_magnitude > 1, and no other
\* condition decides the flag.
C3_FourConditionsDecide ==
    (pc = "entry" /\ C3_Settings) =>
        \A i \in 1..NRows(dataframe) : Flagged("enter_long", i) <=> C3_FourConditions(i)

\* C3 amended: with those settings the entry flag at row i is set if and only
\* if the four conditions hold and fan_magnitude_gain at row i is defined and
\* at least 1.0.
C3_FourConditionsAndGainDecide ==
    (pc = "entry" /\ C3_Settings) =>
        \A i \in 1..NRows(dataframe) :
            Flagged("enter_long", i) <=>
                (C3_FourConditions(i) /\ Ge(Cell("fan_magnitude_gain", i), Num(1)))

C3_Witness ==
    /\ pc = "entry" /\ C3_Settings
    /\ \E i \in 1..NRows(dataframe) : Flagged("enter_long", i)
    /\ \E i \in 1..NRows(dataframe) : C3_FourConditions(i) /\ ~Flagged("enter_long", i)

C4_EntryRule(i) ==
    /\ \/ Le(Cell("close", i), Cell("bb_lowerband", i))
       \/ Lt(Cell("rsi", i), Num(40))
       \/ Lt(Cell("close", i), Cell("sma_20", i)) /\ Gt(Cell("volume", i), Cell("volume_sma", i))
    /\ Gt(Cell("volume", i), Num(0))
    /\ Gt(Cell("close", i), Num(0))

\* C4: GridStrategy.populate_entry_trend sets the entry flag at row i if and
\* only if (close <= bb_lowerband or rsi < 40 or (close < sma_20 and volume >
\* volume_sma)) and volume > 0 and close > 0 at row i; in particular a row
\* whose close equals the lower band, with volume 100 above volume_sma 50, is
\* flagged.
C4_GridEntryIffRule ==
    (pc = "entry" /\ strategy = "GridStrategy") =>
        \A i \in 1..NRows(dataframe) :
            /\ Flagged("enter_long", i) <=> C4_EntryRule(i)
            /\ (/\ Cell("close", i) = Cell("bb_lowerband", i)
                /\ Gt(Cell("close", i), Num(0))
                /\ Cell("volume", i) = Num(100)
                /\ Cell("volume_sma", i) = Num(50)) => Flagged("enter_long", i)

C4_Witness ==
    /\ pc = "entry" /\ strategy = "GridStrategy"
    /\ \E i \in 1..NRows(dataframe) :
          /\ Cell("close", i) = Cell("bb_lowerband", i)
          /\ Cell("volume", i) = Num(100) /\ Cell("volume_sma", i) = Num(50)
          /\ ~Lt(Cell("rsi", i), Num(40)) /\ ~Lt(Cell("close", i), Cell("sma_20", i))
          /\ Flagged("enter_long", i)
    /\ \E i \in 1..NRows(dataframe) : ~Flagged("enter_long", i)

\* C5: in GridStrategy and GridStrategyV2 the entry flag is never set at a row
\* whose close is <= 0 or whose volume is <= 0, whatever the values of the
\* Bollinger band, RSI and moving-average columns at that row.
C5_NoEntryWithoutPriceAndVolume ==
    (pc = "entry" /\ ~IsIchi(strategy)) =>
        \A i \in 1..NRows(dataframe) :
            (Le(Cell("close", i), Num(0)) \/ Le(Cell("volume", i), Num(0)))
                => ~Flagged("enter_long", i)

C6_Defined(i) ==
    /\ ~IsNaN(Cell("trend_close_5m", i))
    /\ ~IsNaN(Cell(SellTrendIndicator, i))

\* C6: in IchiV1 (Fixed and Optimizable) populate_exit_trend sets the exit flag
\* at row i if and only if trend_close_5m[i-1] >= X[i-1] and trend_close_5m[i]
\* < X[i], X the column sell_trend_indicator names; the flag is not set at row
\* 0 nor at a row where trend_close_5m or X is undefined at row i-1 or at row i.
C6_ExitIffCrossedBelow ==
    (pc = "exit" /\ IsIchi(strategy)) =>
        \A i \in 1..NRows(dataframe) :
            /\ Flagged("exit_long", i) <=>
                  /\ i >= 2
                  /\ Ge(Cell("trend_close_5m", i - 1), Cell(SellTrendIndicator, i - 1))
                  /\ Lt(Cell("trend_close_5m", i), Cell(SellTrendIndicator, i))
            /\ (i = 1 \/ ~C6_Defined(i) \/ ~C6_Defined(i - 1)) => ~Flagged("exit_long", i)

C6_Witness ==
    /\ pc = "exit" /\ IsIchi(strategy)
    /\ \E i \in 2..NRows(dataframe) :
          /\ Cell("trend_close_5m", i - 1) = Cell(SellTrendIndicator, i - 1)
          /\ Flagged("exit_long", i)
    /\ \E i \in 1..NRows(dataframe) : ~C6_Defined(i) /\ ~Flagged("exit_long", i)

C7_Grids == {"GridStrategy", "GridStrategyV2"}

C7_Configured == IF strategy = "GridStrategy" THEN Rat(-5, 100) ELSE Rat(-6, 100)

\* C7 as stated: the stop-loss hook of GridStrategy and of GridStrategyV2
\* returns -0.02 whenever current_profit > 0.01, and the strategy's configured
\* stoploss (-0.05, -0.06) whenever current_profit <= 0.01, exactly 0.01
\* included.
C7_TwoTierInBothVariants ==
    (HookCalled /\ strategy \in C7_Grids) =>
        stoploss_ret.ret = IF Gt(stoploss_ret.current_profit, Rat(1, 100))
                           THEN Rat(-2, 100) ELSE C7_Configured

\* C7 amended: the hook of GridStrategy returns -0.02 whenever current_profit >
\* 0.01 and -0.05 whenever current_profit <= 0.01, exactly 0.01 included;
\* GridStrategyV2 defines no hook, and the one it inherits returns -0.06 for
\* every current_profit.
C7_TwoTierInGridStrategyOnly ==
    (HookCalled /\ strategy \in C7_Grids) =>
        stoploss_ret.ret = IF strategy = "GridStrategy"
                              /\ Gt(stoploss_ret.current_profit, Rat(1, 100))
                           THEN Rat(-2, 100) ELSE C7_Configured

C7_Witness ==
    /\ HookCalled /\ strategy = "GridStrategy"
    /\ stoploss_ret.current_profit = Rat(1, 100)
    /\ stoploss_ret.ret = Rat(-5, 100)

C8_AnyExitCondition(i) ==
    \/ Ge(Cell("close", i), Cell("bb_upperband", i))
    \/ Gt(Cell("rsi", i), IF strategy = "GridStrategy" THEN Num(60) ELSE Num(70))
    \/ /\ strategy = "GridStrategy"
       /\ Gt(Cell("close", i), Cell("sma_20", i))
       /\ Gt(Cell("volume", i), Cell("volume_sma", i))

\* C8 as stated: in each Grid variant populate_exit_trend sets the exit flag at
\* every row where volume > 0 and at least one of the variant's exit conditions
\* holds (close >= bb_upperband, RSI above 60 in GridStrategy and 70 in
\* GridStrategyV2, in GridStrategy also close > sma_20 with volume >
\* volume_sma), and at no other row.
C8_ExitIsOrOfConditions ==
    (pc = "exit" /\ strategy \in C7_Grids) =>
        \A i \in 1..NRows(dataframe) :
            Flagged("exit_long", i) <=>
                (Gt(Cell("volume", i), Num(0)) /\ C8_AnyExitCondition(i))

\* C8 amended: GridStrategy sets the exit flag at every row where volume > 0
\* and at least one of close >= bb_upperband, rsi > 60, (close > sma_20 and
\* volume > volume_sma) holds; GridStrategyV2 sets it at every row where volume
\* > 0 and both close >= bb_upperband and rsi > 70 hold; and neither at any
\* other row.
C8_ExitOrInGridAndInV2 ==
    (pc = "exit" /\ strategy \in C7_Grids) =>
        \A i \in 1..NRows(dataframe) :
            Flagged("exit_long", i) <=>
                /\ Gt(Cell("volume", i), Num(0))
                /\ IF strategy = "GridStrategy" THEN C8_AnyExitCondition(i)
                   ELSE /\ Ge(Cell("close", i), Cell("bb_upperband", i))
                        /\ Gt(Cell("rsi", i), Num(70))

C8_Witness ==
    /\ pc = "exit" /\ strategy = "GridStrategyV2"
    /\ \E i \in 1..NRows(dataframe) :
          /\ Ge(Cell("close", i), Cell("bb_upperband", i))
          /\ Gt(Cell("volume", i), Num(0))
          /\ Cell("rsi", i) = Num(71)
          /\ Flagged("exit_long", i)
    /\ \E i \in 1..NRows(dataframe) : ~Flagged("exit_long", i)

C9_Ratio(q, x, y) ==
    IF IsNaN(x) \/ IsNaN(y) THEN IsNaN(q) ELSE ~IsNaN(q) /\ Mul(q, y) = x

\* C9: after IchiV1 populate_indicators, fan_magnitude[i] equals
\* trend_close_1h[i] / trend_close_8h[i]; fan_magnitude_gain is undefined at
\* row 0, and at every row i >= 1 it equals fan_magnitude[i] /
\* fan_magnitude[i-1] when both are defined and is undefined when either is
\* not.
C9_FanMagnitudeAndGain ==
    (pc = "indicators" /\ IsIchi(strategy)) =>
        /\ IsNaN(Cell("fan_magnitude_gain", 1))
        /\ \A i \in 1..NRows(dataframe) :
              C9_Ratio(Cell("fan_magnitude", i), Cell("trend_close_1h", i),
                       Cell("trend_close_8h", i))
        /\ \A i \in 2..NRows(dataframe) :
              C9_Ratio(Cell("fan_magnitude_gain", i), Cell("fan_magnitude", i),
                       Cell("fan_magnitude", i - 1))

C9_Witness ==
    /\ pc = "indicators" /\ IsIchi(strategy)
    /\ \E i \in 2..NRows(dataframe) :
          /\ ~IsNaN(Cell("fan_magnitude_gain", i))
          /\ Cell("fan_magnitude_gain", i) # Num(1)
          /\ Cell("fan_magnitude", i) # Num(1)

C10_Mean4(raw, i) ==
    Div(Add(Add(raw["open"][i], raw["high"][i]), Add(raw["low"][i], raw["close"][i])), Num(4))

\* The Heikin-Ashi relation between the candles raw and the table df, the
\* smoothed open averaging with the column c and high and low taken over the
\* raw extreme, the smoothed open and c.
C10_Smoothed(raw, df, c) ==
    /\ df["open"][1] = Div(Add(raw["open"][1], raw["close"][1]), Num(2))
    /\ \A i \in 2..NRows(raw) :
          df["open"][i] = Div(Add(df["open"][i - 1], c[i - 1]), Num(2))
    /\ \A i \in 1..NRows(raw) :
          /\ df["high"][i] \in {raw["high"][i], df["open"][i], c[i]}
          /\ \A x \in {raw["high"][i], df["open"][i], c[i]} : Ge(df["high"][i], x)
          /\ df["low"][i] \in {raw["low"][i], df["open"][i], c[i]}
          /\ \A x \in {raw["low"][i], df["open"][i], c[i]} : Le(df["low"][i], x)
          /\ df["close"][i] = raw["close"][i]

C10_IndicatorsOfIchi == pc = "start" /\ pc' = "indicators" /\ IsIchi(strategy)

\* C10 as stated: after IchiV1 populate_indicators open[0] = (raw open[0] + raw
\* close[0]) / 2 and open[i] = (open[i-1] + close[i-1]) / 2 with close the
\* unsmoothed close; high[i] = max(raw high[i], open[i], close[i]) and low[i] =
\* min(raw low[i], open[i], close[i]); the close column is left unsmoothed.
C10_SmoothedWithUnsmoothedClose ==
    [][C10_IndicatorsOfIchi => C10_Smoothed(dataframe, dataframe', dataframe["close"])]_vars

\* C10 amended: after IchiV1 populate_indicators open[0] = (raw open[0] + raw
\* close[0]) / 2 and open[i] = (open[i-1] + m[i-1]) / 2 with m[i] the mean of
\* the raw open, high, low and close of row i; high[i] = max(raw high[i],
\* open[i], m[i]) and low[i] = min(raw low[i], open[i], m[i]); the close column
\* is left unsmoothed.
C10_SmoothedWithMeanPrice ==
    [][C10_IndicatorsOfIchi =>
          C10_Smoothed(dataframe, dataframe',
                       [i \in 1..NRows(dataframe) |-> C10_Mean4(dataframe, i)])]_vars

C10_Witness ==
    /\ pc = "indicators" /\ IsIchi(strategy)
    /\ \E i \in 2..NRows(dataframe) :
          /\ Cell("open", i)[2] # 1
          /\ Cell("high", i) = Cell("open", i)
          /\ Cell("high", i) # Cell("close", i)

\* The columns populate_indicators adds to the candle table.
IndicatorColumns(df) == DOMAIN df \ {"open", "high", "low", "close", "volume"}

\* C11: for every strategy, calling populate_indicators twice in succession on
\* the same candle table yields the same indicator column values from the
\* second call as from the first.
C11_SecondCallSameColumns ==
    [][(pc = "indicators" /\ pc' = "repeated") =>
          \A name \in IndicatorColumns(dataframe) : dataframe'[name] = dataframe[name]]_vars

FlagAt(df, name, i) == HasCol(df, name) /\ df[name][i] = Num(1)

SameFlags(a, b, n) ==
    \A i \in 1..n : \A name \in {"enter_long", "exit_long"} :
        FlagAt(a, name, i) <=> FlagAt(b, name, i)

\* C12: causality.  For every strategy and every row i, the entry flag and the
\* exit flag at row i are the same for any two candle series that agree on rows
\* 0..i, whatever the later rows contain.  Stated for a series and the same series
\* without its last candle: the flags of every row they share are the same (two
\* series that agree on rows 0..i are both reached from their common rows by
\* appending candles one at a time).
C12_NoLookahead ==
    (pc = "exit" /\ ~HookCalled /\ NRows(candles) >= 2) =>
        SameFlags(dataframe, Lifecycle(strategy, DropLast(candles), params),
                  NRows(candles) - 1)

\* An IchiV1 entry on a row that a later candle follows, and an exit likewise.
C12_Witness ==
    /\ pc = "exit"
    /\ ~HookCalled
    /\ IsIchi(strategy)
    /\ \E i \in 1..(NRows(candles) - 1) :
          /\ Flagged("enter_long", i)
          /\ candles["close"][i + 1] # candles["close"][i]

Defined(name, i) == i >= 1 /\ ~IsNaN(Cell(name, i))

\* An entry condition of the Grid strategies that holds at row i on defined
\* operands.
C13_GridConditionOnDefined(i) ==
    \/ /\ Defined("bb_lowerband", i)
       /\ Cmp(Cell("close", i), Cell("bb_lowerband", i)) <= 0
    \/ /\ Defined("rsi", i)
       /\ Cmp(Cell("rsi", i), Num(IF strategy = "GridStrategy" THEN 40 ELSE 30)) < 0
    \/ /\ strategy = "GridStrategy"
       /\ Defined("sma_20", i) /\ Defined("volume_sma", i)
       /\ Cmp(Cell("close", i), Cell("sma_20", i)) < 0
       /\ Cmp(Cell("volume", i), Cell("volume_sma", i)) > 0

\* The indicators the IchiV1 entry reads at row i, under the current settings,
\* all have a value.
C13_IchiReadsDefined(i) ==
    /\ \A h \in 1..EntrySetting("buy_trend_above_senkou_level") :
          Defined(TrendClose[h], i) /\ Defined("senkou_a", i) /\ Defined("senkou_b", i)
    /\ \A h \in 1..EntrySetting("buy_trend_bullish_level") :
          Defined(TrendClose[h], i) /\ Defined(TrendOpen[h], i)
    /\ Defined("fan_magnitude_gain", i)
    /\ \A s \in 0..EntrySetting("buy_fan_magnitude_shift_value") :
          Defined("fan_magnitude", i - s)

\* C13: in the entry logic of every strategy a threshold comparison whose
\* indicator operand is undefined at row i evaluates to false at row i: a flagged
\* row of a Grid strategy has an entry condition that holds on defined operands,
\* and in IchiV1 the entry flag is not set at any row where one of the
\* indicators it reads (the selected trend_close/trend_open horizons, senkou_a,
\* senkou_b, fan_magnitude, fan_magnitude_gain, or fan_magnitude at any lag 1..S)
\* is undefined.
C13_UndefinedComparesFalse ==
    pc = "entry" =>
        \A i \in 1..NRows(dataframe) :
            Flagged("enter_long", i) =>
                IF IsIchi(strategy) THEN C13_IchiReadsDefined(i)
                ELSE C13_GridConditionOnDefined(i)

\* An IchiV1 table with an undefined cell among the indicators read at a row
\* that exists with all its lags, and another row flagged.
C13_Witness ==
    /\ pc = "entry" /\ IsIchi(strategy)
    /\ \E i \in 1..NRows(dataframe) :
          /\ i - EntrySetting("buy_fan_magnitude_shift_value") >= 1
          /\ ~C13_IchiReadsDefined(i)
          /\ ~Flagged("enter_long", i)
    /\ \E i \in 1..NRows(dataframe) : Flagged("enter_long", i)

\* The exit indicator setting names a column populate_indicators does not make.
C14_MissingColumn == IsIchi(strategy) /\ SellTrendIndicator \notin IchiColumns

\* C14: when the configured exit indicator name (sell_trend_indicator) names a
\* column that does not exist in the indicator table, the error is surfaced at
\* setup time, before any call of populate_exit_trend; it is not deferred to
\* signal computation: under such a setting no call of populate_exit_trend
\* happens, neither one that returns nor one that raises.
C14_MissingColumnFailsAtSetup == C14_MissingColumn => pc \notin {"exit", "KeyError"}

\* The entry rule and the exit rule of IchiV1 at row i under the settings v.
C15_EntryRule(v, i) ==
    /\ \A h \in 1..v.buy_trend_above_senkou_level :
          /\ Gt(Cell(TrendClose[h], i), Cell("senkou_a", i))
          /\ Gt(Cell(TrendClose[h], i), Cell("senkou_b", i))
    /\ \A h \in 1..v.buy_trend_bullish_level :
          Gt(Cell(TrendClose[h], i), Cell(TrendOpen[h], i))
    /\ Ge(Cell("fan_magnitude_gain", i), v.buy_min_fan_magnitude_gain)
    /\ Gt(Cell("fan_magnitude", i), Num(1))
    /\ \A x \in 1..v.buy_fan_magnitude_shift_value :
          i - x >= 1 /\ Lt(Cell("fan_magnitude", i - x), Cell("fan_magnitude", i))

C15_ExitRule(v, i) ==
    /\ i >= 2
    /\ Ge(Cell("trend_close_5m", i - 1), Cell(v.sell_trend_indicator, i - 1))
    /\ Lt(Cell("trend_close_5m", i), Cell(v.sell_trend_indicator, i))

\* The parameters hold a value only the optimizer assigns.
C15_Reassigned == strategy = "IchiV1_Optimizable" /\ params.value \in OptimizerValues

\* C15: in IchiV1_Optimizable, when the optimizer assigns a new value to a
\* tunable parameter between two signal computations, the next
\* populate_entry_trend / populate_exit_trend call uses the newly assigned value
\* for every row: the flags of every row are those of the entry rule and of the
\* exit rule under the currently assigned values.
C15_UsesAssignedValue ==
    C15_Reassigned =>
        \A i \in 1..NRows(dataframe) :
            /\ pc \in {"entry", "exit"} =>
                  (Flagged("enter_long", i) <=> C15_EntryRule(params.value, i))
            /\ pc = "exit" =>
                  (Flagged("exit_long", i) <=> C15_ExitRule(params.value, i))

\* After a reassignment: a row flagged for entry that the buy_params dictionary
\* would not flag, and a row flagged for exit that the sell_params dictionary
\* would not flag.
C15_Witness ==
    /\ C15_Reassigned
    /\ pc = "exit"
    /\ \E i \in 1..NRows(dataframe) :
          Flagged("enter_long", i) /\ ~C15_EntryRule(params.buy_params, i)
    /\ \E i \in 1..NRows(dataframe) :
          Flagged("exit_long", i) /\ ~C15_ExitRule(params.sell_params, i)

\* C16: for each of the four strategies, the host lifecycle
\* populate_indicators(table, metadata) then populate_entry_trend(table,
\* metadata) then populate_exit_trend(table, metadata), each invoked with the
\* candle table plus the metadata record, runs to completion and returns a table
\* without raising an error: no call that passes metadata is rejected, and with
\* the exit indicator naming a column no call raises KeyError.
C16_MetadataCallsComplete ==
    /\ pc # TypeError(TRUE)
    /\ ~C14_MissingColumn => pc # "KeyError"

\* The columns of the IchiV1 indicator table the claim C17 names.
C17_Columns ==
    {"leading_senkou_span_a", "leading_senkou_span_b", "cloud_green", "cloud_red",
     "tenkan_sen", "kijun_sen", "atr"}

\* The table df with the value x in every row of the numeric columns of
\* C17_Columns and b in every row of the two cloud columns.
C17_Overwrite(df, x, b) ==
    [name \in DOMAIN df |->
        IF name \in {"cloud_green", "cloud_red"} THEN [i \in 1..NRows(df) |-> b]
        ELSE IF name \in C17_Columns THEN [i \in 1..NRows(df) |-> x]
        ELSE df[name]]

C17_Signals(s, df, p) == populate_exit_trend(s, populate_entry_trend(s, df, p), p)

C18_Example(i) ==
    /\ Lt(Cell("close", i), Cell("sma_20", i))
    /\ Gt(Cell("volume", i), Cell("volume_sma", i))
    /\ Gt(Cell("volume_sma", i), Num(0))
    /\ Gt(Cell("rsi", i), Num(60))
    /\ Gt(Cell("close", i), Num(0))

\* C18: entry and exit flags are not mutually exclusive.  In GridStrategy, at
\* every row with close < sma_20, volume > volume_sma > 0 and rsi > 60,
\* populate_entry_trend has set the entry flag and populate_exit_trend sets the
\* exit flag on that same row, and no operation clears a flag that is set.
C18_BothFlagsOnOneRow ==
    [][strategy = "GridStrategy" =>
          \A i \in 1..NRows(dataframe) :
              /\ Flagged("enter_long", i) => Flagged("enter_long", i)'
              /\ Flagged("exit_long", i) => Flagged("exit_long", i)'
              /\ (pc' = "exit" /\ C18_Example(i)') =>
                    (Flagged("enter_long", i)' /\ Flagged("exit_long", i)')]_vars

C18_Witness ==
    /\ strategy = "GridStrategy"
    /\ pc = "exit"
    /\ \E i \in 1..NRows(dataframe) :
          C18_Example(i) /\ Flagged("enter_long", i) /\ Flagged("exit_long", i)

\* The other IchiV1 class, holding the five settings of the running one.
C19_OtherClass == IF strategy = "IchiV1_Fixed" THEN "IchiV1_Optimizable" ELSE "IchiV1_Fixed"

C19_SameSettings ==
    IF strategy = "IchiV1_Fixed"
    THEN Optimizable_params(Value(params.buy_params.buy_trend_above_senkou_level,
                                  params.buy_params.buy_trend_bullish_level,
                                  params.buy_params.buy_fan_magnitude_shift_value,
                                  params.buy_params.buy_min_fan_magnitude_gain,
                                  params.sell_params.sell_trend_indicator))
    ELSE [buy_params |-> BuyParams(params.value.buy_trend_above_senkou_level,
                                   params.value.buy_trend_bullish_level,
                                   params.value.buy_fan_magnitude_shift_value,
                                   params.value.buy_min_fan_magnitude_gain),
          sell_params |-> [sell_trend_indicator |-> params.value.sell_trend_indicator]]

C20_ColumnsRead ==
    {TrendClose[h] : h \in 1..Len(TrendClose)} \cup {TrendOpen[h] : h \in 1..Len(TrendOpen)}
    \cup {"fan_magnitude", "fan_magnitude_gain", "senkou_a", "senkou_b"}

\* C20: the IchiV1 warm-up count of 96 candles covers every indicator the
\* signals read: on a candle series with all inputs defined, every column read
\* by populate_entry_trend and populate_exit_trend (trend_close/trend_open at
\* all 8 horizons, fan_magnitude, fan_magnitude_gain and its lags, senkou_a,
\* senkou_b) is defined at every row with index >= 96.
C20_WarmupCoversIndicators ==
    (pc = "indicators" /\ IsIchi(strategy)) =>
        \A i \in (startup_candle_count(strategy) + 1)..NRows(dataframe) :
            /\ \A name \in C20_ColumnsRead : Defined(name, i)
            /\ \A x \in 1..EntrySetting("buy_fan_magnitude_shift_value") :
                  Defined("fan_magnitude", i - x)

\* The effect of one flag assignment on the table: no column is added besides
\* the flag column and none is removed, every other column keeps its values,
\* and every cell of the flag column holds 1 or what it held before the call
\* (a missing value when the column did not exist).
C21_Frame(flag) ==
    /\ DOMAIN dataframe \subseteq DOMAIN dataframe'
    /\ DOMAIN dataframe' \subseteq DOMAIN dataframe \cup {flag}
    /\ \A name \in DOMAIN dataframe \ {flag} : dataframe'[name] = dataframe[name]
    /\ HasCol(dataframe', flag) =>
          \A i \in 1..NRows(dataframe) :
              \/ dataframe'[flag][i] = Num(1)
              \/ dataframe'[flag][i] = (IF HasCol(dataframe, flag) THEN dataframe[flag][i]
                                        ELSE NaN)

\* The table the three methods return for the indicator values of the current
\* table when it carries no flag column.
C21_Fresh ==
    populate_exit_trend(strategy,
                        populate_entry_trend(strategy, FreshTable(dataframe), params),
                        params)

\* C21: in every strategy populate_entry_trend and populate_exit_trend only
\* ever write the value 1, each into its own flag column (enter_long,
\* exit_long): they never write 0 or false, leave every non-matching row's
\* flag as it was before the call (missing if the column did not exist, still
\* 1 if an earlier call set it), and change no other column of the table.
C21_FlagsOnlySetToOne ==
    [][/\ (pc = "indicators" /\ pc' = "entry") => C21_Frame("enter_long")
       /\ (pc = "entry" /\ pc' = "exit") => C21_Frame("exit_long")]_vars

\* A table after both calls on which a row that matches neither rule carries
\* the entry flag of an earlier call, and one the exit flag of an earlier call.
C21_Witness ==
    /\ pc = "exit"
    /\ \E i \in 1..NRows(dataframe) :
          Flagged("enter_long", i) /\ ~FlagAt(C21_Fresh, "enter_long", i)
    /\ \E i \in 1..NRows(dataframe) :
          Flagged("exit_long", i) /\ ~FlagAt(C21_Fresh, "exit_long", i)

\* The parameters of the running IchiV1 class with one entry setting changed.
C22_With(name, v) ==
    IF strategy = "IchiV1_Fixed" THEN [params EXCEPT !.buy_params[name] = v]
    ELSE [params EXCEPT !.value[name] = v]

\* Larger values of each entry setting: the next level and the highest one
\* (the number of horizons), the next lag and the longest one (MaxShift + 1),
\* and the minimum gain raised by one step of its three decimals and by 1.
C22_Raised(name) ==
    CASE name \in {"buy_trend_above_senkou_level", "buy_trend_bullish_level"} ->
            {C22_With(name, k) :
                k \in {j \in {EntrySetting(name) + 1, Len(TrendClose)} : j > EntrySetting(name)}}
      [] name = "buy_fan_magnitude_shift_value" ->
            {C22_With(name, k) :
                k \in {j \in {EntrySetting(name) + 1, MaxShift + 1} : j > EntrySetting(name)}}
      [] OTHER ->
            {C22_With(name, Add(EntrySetting(name), d)) : d \in {Rat(1, 1000), Num(1)}}

C22_Settings ==
    {"buy_trend_above_senkou_level", "buy_trend_bullish_level",
     "buy_fan_magnitude_shift_value", "buy_min_fan_magnitude_gain"}

\* The table populate_entry_trend returns for the indicator values of the
\* current table under the parameters q.
C22_Under(q) == populate_entry_trend(strategy, FreshTable(dataframe), q)

\* Every row flagged in the table t is flagged in the current table.
C22_Within(t) ==
    \A i \in 1..NRows(dataframe) : FlagAt(t, "enter_long", i) => Flagged("enter_long", i)

\* C22: IchiV1 entry is monotone in its parameters: on a fixed indicator
\* table, raising buy_trend_above_senkou_level, buy_trend_bullish_level,
\* buy_fan_magnitude_shift_value or buy_min_fan_magnitude_gain (the others
\* unchanged) never adds a row to the set of entry-flagged rows; the flagged
\* set for the larger value is a subset of the flagged set for the smaller
\* value.
C22_EntryMonotone ==
    (pc = "entry" /\ IsIchi(strategy)) =>
        \A name \in C22_Settings : \A q \in C22_Raised(name) : C22_Within(C22_Under(q))

\* A row flagged in the current table is not flagged in the table t.
C22_Drops(t) ==
    \E i \in 1..NRows(dataframe) : Flagged("enter_long", i) /\ ~FlagAt(t, "enter_long", i)

\* A table on which a higher cloud level, a higher bullish level and a longer
\* lag each take a flagged row out of the set.
C22_Witness ==
    /\ pc = "entry" /\ IsIchi(strategy)
    /\ \A name \in C22_Settings \ {"buy_min_fan_magnitude_gain"} :
          \E q \in C22_Raised(name) : C22_Drops(C22_Under(q))

\* The row i has its lower band strictly below its upper band.
C23_BandsApart(i) == Lt(Cell("bb_lowerband", i), Cell("bb_upperband", i))

\* C23: in GridStrategyV2 no row carries both flags whenever
\* bb_lowerband < bb_upperband at that row: the entry condition
\* (close <= bb_lowerband OR rsi < 30) and the exit condition
\* (close >= bb_upperband AND rsi > 70) cannot hold together on such a row.
C23_NoRowWithBothFlags ==
    (strategy = "GridStrategyV2" /\ pc = "exit") =>
        \A i \in 1..NRows(dataframe) :
            C23_BandsApart(i) => ~(Flagged("enter_long", i) /\ Flagged("exit_long", i))

\* A table with a row flagged for entry alone and a row flagged for exit alone,
\* both with the lower band below the upper one.
C23_Witness ==
    /\ strategy = "GridStrategyV2" /\ pc = "exit"
    /\ \E i \in 1..NRows(dataframe) :
          C23_BandsApart(i) /\ Flagged("enter_long", i) /\ ~Flagged("exit_long", i)
    /\ \E i \in 1..NRows(dataframe) :
          C23_BandsApart(i) /\ Flagged("exit_long", i) /\ ~Flagged("enter_long", i)

====
